---- MODULE Spec2Model ----
\* A model of the MLM pipeline (src/MLM.py): the node table built from a
\* phylogenetic tree, the region annotation, the confidence lookup, the
\* recursive weighting and the per-region aggregation.
EXTENDS Integers, Sequences, FiniteSets, TLC

VARIABLES
    tree,                  \* the parsed Bio.Phylo tree handed to create_node_dict
    annotations,           \* dict node name -> region read from the trait file
    confi_df,              \* the DataFrame read_confidence returned
    node_dict,             \* the node table (an insertion-ordered dict)
    spread_probabilities,  \* the value calculate_spread_probabilities returned
    log,                   \* the warnings logged so far
    lookup,                \* arguments of a direct confidence lookup
    conf,                  \* outcome of that lookup
    calls,                 \* how often each pass has been run
    pc,                    \* the last stage of the pipeline that finished
    err                    \* the exception that ended the run, if any

vars == <<tree, annotations, confi_df, node_dict, spread_probabilities, log,
          lookup, conf, calls, pc, err>>

(***************************************************************************)
(* Bounds of the model.                                                    *)
(***************************************************************************)
MaxNodes == 4
MaxBuildNodes == 4
MaxRuns == 2
MaxRows == 2

(***************************************************************************)
(* Python values.                                                          *)
(***************************************************************************)
None == "<None>"
NoKey == "<no such key>"
NoErr == "<no exception>"
NotRun == "<not run>"

Range(s) == {s[i] : i \in DOMAIN s}

\* Python truthiness of a name or region: None and the empty string are falsy.
Truthy(x) == x # None /\ x # ""

(***************************************************************************)
(* Trees.  Clades are numbered 1..n in the preorder find_clades yields;    *)
(* par[i] is the clade whose .clades holds i (0 for the root), and name[i] *)
(* is clade.name (None for an unnamed clade).                              *)
(***************************************************************************)
RECURSIVE AncestorsOrSelf(_, _)
AncestorsOrSelf(par, i) ==
    IF i = 0 THEN {} ELSE {i} \cup AncestorsOrSelf(par, par[i])

IsPreorder(n, par) ==
    /\ par[1] = 0
    /\ \A i \in 2..n : par[i] \in AncestorsOrSelf(par, i - 1)

Shapes(n) == {par \in [1..n -> 0..(n - 1)] : IsPreorder(n, par)}

\* clade.clades of clade p, in order
Clades(t, p) ==
    LET IsChild(i) == t.par[i] = p
    IN  SelectSeq([i \in 1..t.n |-> i], IsChild)

NodeNames == <<"C", "A", "B", "D", "E", "F", "G", "H">>

BuildNames == {"A", "B", None}

(***************************************************************************)
(* create_node_dict.  A dict is modelled by the sequence of its keys in    *)
(* insertion order and the function from key to value; a record's region   *)
(* is NoKey until assign_geography stores one.                             *)
(***************************************************************************)
FreshNode == [children |-> <<>>, parent |-> None, weight |-> 0, region |-> NoKey]

\* first loop: node_dict[clade.name] = {...} for every clade
RECURSIVE FirstLoop(_, _, _)
FirstLoop(t, i, order) ==
    IF i > t.n THEN order
    ELSE FirstLoop(t, i + 1,
                   IF t.name[i] \in Range(order) THEN order
                   ELSE Append(order, t.name[i]))

\* a build that stores the child instead of appending it
LinkOverwriting(data, pname, cname) ==
    LET d1 == [data EXCEPT ![cname].parent = pname]
    IN  [d1 EXCEPT ![pname].children = <<cname>>]

\* the body of the inner loop for one child of one clade
Link(data, pname, cname) ==
    LET d1 == [data EXCEPT ![cname].parent = pname]
    IN  [d1 EXCEPT ![pname].children = Append(@, cname)]

RECURSIVE LinkChildren(_, _, _, _, _)
LinkChildren(t, p, kids, k, data) ==
    IF k > Len(kids) THEN data
    ELSE LinkChildren(t, p, kids, k + 1, Link(data, t.name[p], t.name[kids[k]]))

\* second loop: for clade in tree.find_clades(): for child in clade.clades
RECURSIVE SecondLoop(_, _, _)
SecondLoop(t, p, data) ==
    IF p > t.n THEN data
    ELSE SecondLoop(t, p + 1, LinkChildren(t, p, Clades(t, p), 1, data))

create_node_dict(t) ==
    LET order == FirstLoop(t, 1, <<>>)
    IN  [order |-> order,
         data  |-> SecondLoop(t, 1, [k \in Range(order) |-> FreshNode])]

EmptyDict == [order |-> <<>>, data |-> <<>>]

CreateNodeDict ==
    /\ pc = "start"
    /\ node_dict' = create_node_dict(tree)
    /\ pc' = "built"
    /\ UNCHANGED <<tree, annotations, confi_df, spread_probabilities, log,
                   lookup, conf, calls, err>>

(***************************************************************************)
(* The confidence table.  A tab-separated file is a header line and data   *)
(* lines; pd.read_csv(sep='\t') labels the columns with the header's       *)
(* strings.  A column label carries its Python type: the string '0' and    *)
(* the integer 0 are different labels.                                     *)
(***************************************************************************)
StrLabel(s) == [kind |-> "str", text |-> s]
IntLabel(s) == [kind |-> "int", text |-> s]

read_confidence(file) ==
    [columns |-> [i \in DOMAIN file.header |-> StrLabel(file.header[i])],
     rows    |-> file.lines]

\* the position of a column label (the label is known to be a column)
ColumnIndex(df, label) ==
    CHOOSE i \in DOMAIN df.columns : df.columns[i] = label

\* Every outcome of a lookup: the exception raised (NoErr if none), the
\* value returned and the warnings logged.
Returned(v, warnings) == [raised |-> NoErr, value |-> v, warnings |-> warnings]
Raised(e, warnings) == [raised |-> e, value |-> 0, warnings |-> warnings]

RegionWarning(region) == [kind |-> "region not found", node |-> None, region |-> region]
NodeWarning(name, region) == [kind |-> "node not found", node |-> name, region |-> region]
DictWarning(name) == [kind |-> "not in node dictionary", node |-> name, region |-> None]

\* a lookup without the test for an unknown region
get_confidence_unguarded(df, name, region) ==
    IF IntLabel("0") \notin Range(df.columns)
    THEN Raised("KeyError", {})
    ELSE Returned(1, {NodeWarning(name, region)})

get_confidence_by_name_and_region(df, name, region) ==
    IF StrLabel(region) \notin Range(df.columns)
    THEN Returned(1, {RegionWarning(region)})
    ELSE IF IntLabel("0") \notin Range(df.columns)
    THEN Raised("KeyError", {})            \* confi_df[0]: no column is labelled 0
    ELSE LET k0 == ColumnIndex(df, IntLabel("0"))
             Matches(r) == r[k0] = name
             row == SelectSeq(df.rows, Matches)
         IN  IF row # <<>>
             THEN Returned(row[1][ColumnIndex(df, StrLabel(region))], {})
             ELSE Returned(1, {NodeWarning(name, region)})

LookupConfidence ==
    /\ pc = "start"
    /\ LET r == get_confidence_by_name_and_region(confi_df, lookup.name, lookup.region)
       IN  /\ conf' = r
           /\ log' = log \cup r.warnings
           /\ err' = r.raised
    /\ pc' = "looked up"
    /\ UNCHANGED <<tree, annotations, confi_df, node_dict, spread_probabilities,
                   lookup, calls>>

(***************************************************************************)
(* assign_geography.                                                       *)
(***************************************************************************)
assign_geography(nd, ann) ==
    [nd EXCEPT !.data = [k \in DOMAIN nd.data |->
        IF k \in DOMAIN ann THEN [nd.data[k] EXCEPT !.region = ann[k]]
        ELSE nd.data[k]]]

AssignGeography ==
    /\ pc = "built"
    /\ node_dict' = assign_geography(node_dict, annotations)
    /\ log' = log \cup {DictWarning(k) : k \in DOMAIN annotations \ DOMAIN node_dict.data}
    /\ pc' = "annotated"
    /\ UNCHANGED <<tree, annotations, confi_df, spread_probabilities, lookup,
                   conf, calls, err>>

\* data.get('region', 'Unknown')
RegionOf(data) == IF data.region = NoKey THEN "Unknown" ELSE data.region

(***************************************************************************)
(* calculate_weights.                                                      *)
(***************************************************************************)
\* assign_weight and the generator summed over the children.  An outcome
\* carries the entries stored into the local dict `weights` so far.
Stored(r, ws) == [raised |-> r.raised, value |-> r.value,
                  warnings |-> r.warnings, weights |-> ws]

RECURSIVE assign_weight(_, _, _)
RECURSIVE SumChildren(_, _, _, _, _, _)

\* a sum that stops before the last child
SumChildrenButLast(nd, df, kids, k, confidence, acc) ==
    IF k >= Len(kids) THEN acc
    ELSE LET c == assign_weight(nd, df, kids[k])
         IN  SumChildren(nd, df, kids, k + 1, confidence,
                 Stored(Returned(acc.value + c.value * confidence,
                                 acc.warnings \cup c.warnings),
                        c.weights @@ acc.weights))

SumChildren(nd, df, kids, k, confidence, acc) ==
    IF k > Len(kids) THEN acc
    ELSE LET c == assign_weight(nd, df, kids[k])
             ws == c.weights @@ acc.weights
             warnings == acc.warnings \cup c.warnings
         IN  IF c.raised # NoErr
             THEN Stored(Raised(c.raised, warnings), ws)
             ELSE SumChildren(nd, df, kids, k + 1, confidence,
                     Stored(Returned(acc.value + c.value * confidence, warnings), ws))

assign_weight(nd, df, node) ==
    LET region == RegionOf(nd.data[node])
        c == get_confidence_by_name_and_region(df, node, region)
        kids == nd.data[node].children
    IN  IF c.raised # NoErr THEN Stored(c, <<>>)
        ELSE IF kids # <<>>
        THEN LET s == SumChildren(nd, df, kids, 1, c.value,
                                  Stored(Returned(0, c.warnings), <<>>))
             IN  IF s.raised # NoErr THEN s
                 ELSE Stored(s, (node :> s.value) @@ s.weights)
        ELSE Stored(Returned(1 * c.value, c.warnings), node :> (1 * c.value))

\* root = next(node for node, data in node_dict.items() if data['parent'] is None)
Parentless(nd) ==
    LET IsParentless(k) == nd.data[k].parent = None
    IN  SelectSeq(nd.order, IsParentless)

\* a final loop that adds to the stored weight instead of replacing it
calculate_weights_adding(nd, df) ==
    IF Parentless(nd) = <<>>
    THEN [raised |-> "StopIteration", warnings |-> {}, node_dict |-> nd]
    ELSE LET r == assign_weight(nd, df, Parentless(nd)[1])
             weights == r.weights @@ [k \in DOMAIN nd.data |-> 0]
         IN  IF r.raised # NoErr
             THEN [raised |-> r.raised, warnings |-> r.warnings, node_dict |-> nd]
             ELSE [raised |-> NoErr, warnings |-> r.warnings,
                   node_dict |-> [nd EXCEPT !.data =
                       [k \in DOMAIN nd.data |->
                           [nd.data[k] EXCEPT !.weight = @ + weights[k]]]]]

calculate_weights(nd, df) ==
    IF Parentless(nd) = <<>>
    THEN [raised |-> "StopIteration", warnings |-> {}, node_dict |-> nd]
    ELSE LET r == assign_weight(nd, df, Parentless(nd)[1])
             weights == r.weights @@ [k \in DOMAIN nd.data |-> 0]
         IN  IF r.raised # NoErr
             THEN [raised |-> r.raised, warnings |-> r.warnings, node_dict |-> nd]
             ELSE [raised |-> NoErr, warnings |-> r.warnings,
                   node_dict |-> [nd EXCEPT !.data =
                       [k \in DOMAIN nd.data |->
                           [nd.data[k] EXCEPT !.weight = weights[k]]]]]

CalculateWeights ==
    /\ pc \in {"annotated", "weighted"}
    /\ calls.weights < MaxRuns
    /\ LET r == calculate_weights(node_dict, confi_df)
       IN  /\ node_dict' = r.node_dict
           /\ log' = log \cup r.warnings
           /\ err' = r.raised
           /\ pc' = IF r.raised = NoErr THEN "weighted" ELSE "failed"
    /\ calls' = [calls EXCEPT !.weights = @ + 1]
    /\ UNCHANGED <<tree, annotations, confi_df, spread_probabilities, lookup, conf>>

(***************************************************************************)
(* calculate_spread_probabilities.                                         *)
(***************************************************************************)
FreshStats == [total |-> 0, sources |-> <<>>, local |-> 0]

\* sources.setdefault(parent_region, 0); sources[parent_region] += weight
AddSource(sources, parent_region, weight) ==
    IF parent_region \in DOMAIN sources
    THEN [sources EXCEPT ![parent_region] = @ + weight]
    ELSE (parent_region :> (0 + weight)) @@ sources

\* the body of the loop for one node: the exception it raises (NoErr if
\* none) and regions_weight after it
SpreadStep(nd, node, rw) ==
    LET data == nd.data[node]
        region == RegionOf(data)
    IN  IF region \notin DOMAIN rw
        THEN [raised |-> "KeyError", rw |-> rw]
        ELSE LET rw1 == [rw EXCEPT ![region].total = @ + data.weight]
             IN  IF Truthy(data.parent) /\ nd.data[data.parent].region = NoKey
                 THEN [raised |-> "KeyError", rw |-> rw1]
                 ELSE LET parent_region == IF Truthy(data.parent)
                                           THEN nd.data[data.parent].region
                                           ELSE None
                      IN  IF parent_region = region
                          THEN [raised |-> NoErr,
                                rw |-> [rw1 EXCEPT ![region].local = @ + data.weight]]
                          ELSE IF Truthy(parent_region) /\ parent_region # region
                          THEN [raised |-> NoErr,
                                rw |-> [rw1 EXCEPT ![region].sources =
                                           AddSource(@, parent_region, data.weight)]]
                          ELSE [raised |-> NoErr, rw |-> rw1]

RECURSIVE SpreadLoop(_, _, _)
SpreadLoop(nd, i, rw) ==
    IF i > Len(nd.order) THEN [raised |-> NoErr, rw |-> rw]
    ELSE LET r == SpreadStep(nd, nd.order[i], rw)
         IN  IF r.raised # NoErr THEN r ELSE SpreadLoop(nd, i + 1, r.rw)

calculate_spread_probabilities(nd, ann) ==
    SpreadLoop(nd, 1, [region \in Range(ann) |-> FreshStats])

CalculateSpreadProbabilities ==
    /\ pc \in {"weighted", "done"}
    /\ calls.spread < MaxRuns
    /\ LET r == calculate_spread_probabilities(node_dict, annotations)
       IN  /\ spread_probabilities' =
                  IF r.raised = NoErr THEN r.rw ELSE spread_probabilities
           /\ err' = r.raised
           /\ pc' = IF r.raised = NoErr THEN "done" ELSE "failed"
    /\ calls' = [calls EXCEPT !.spread = @ + 1]
    /\ UNCHANGED <<tree, annotations, confi_df, node_dict, log, lookup, conf>>

(***************************************************************************)
(* The inputs.                                                             *)
(***************************************************************************)
ShapesUpTo(m) == UNION {{[n |-> n, par |-> par] : par \in Shapes(n)} : n \in 1..m}

\* rooted trees whose nodes all carry distinct names
NamedTrees ==
    {[n |-> s.n, par |-> s.par, name |-> [i \in 1..s.n |-> NodeNames[i]]] :
        s \in ShapesUpTo(MaxNodes)}

\* trees whose clades carry any names, repeated or missing
AnyTrees ==
    UNION {{[n |-> s.n, par |-> s.par, name |-> nm] : nm \in [1..s.n -> BuildNames]} :
              s \in ShapesUpTo(MaxBuildNodes)}

\* the trait file: name <tab> region per line, a region per annotated node
NodeRegions == {"Region1", "Region2", ""}
GhostRegions == {"Unknown"}

Partial(keys, values) == UNION {[d -> values] : d \in SUBSET keys}

Annotations(t) ==
    {a @@ g : a \in Partial(Range(t.name), NodeRegions),
              g \in Partial({"Z"}, GhostRegions)}

\* confidence files of the pipeline runs
PipelineFiles ==
    {[header |-> <<"name">>, lines |-> <<>>],
     [header |-> <<"name", "Region1">>, lines |-> << <<"C", 2>>, <<"A", 0>> >>],
     [header |-> <<"name", "Unknown">>, lines |-> << <<"C", 2>> >>]}

\* confidence files of the direct lookups
Headers ==
    {<<h>> \o r : h \in {"name", "0"},
                  r \in {<<>>, <<"Region1">>, <<"Unknown">>, <<"Region1", "Unknown">>}}

CellValues == {0, 2}

Lines(header) ==
    {<<nm>> \o v : nm \in {"C", "A"}, v \in [1..(Len(header) - 1) -> CellValues]}

LookupFiles ==
    UNION {{[header |-> h, lines |-> ls] :
               ls \in UNION {[1..k -> Lines(h)] : k \in 0..MaxRows}} : h \in Headers}

LookupNames == {"C", "A", "B"}
LookupRegions == {"Region1", "Region2", "Unknown", "name"}

InitIdle ==
    /\ node_dict = EmptyDict
    /\ spread_probabilities = NotRun
    /\ log = {}
    /\ conf = NotRun
    /\ calls = [weights |-> 0, spread |-> 0]
    /\ pc = "start"
    /\ err = NoErr

Init ==
    /\ tree \in NamedTrees
    /\ annotations \in Annotations(tree)
    /\ confi_df \in {read_confidence(f) : f \in PipelineFiles}
    /\ lookup = NotRun
    /\ InitIdle

InitBuild ==
    /\ tree \in AnyTrees
    /\ annotations = <<>>
    /\ confi_df = read_confidence([header |-> <<"name">>, lines |-> <<>>])
    /\ lookup = NotRun
    /\ InitIdle

InitLookup ==
    /\ tree = [n |-> 1, par |-> <<0>>, name |-> <<"C">>]
    /\ annotations = <<>>
    /\ confi_df \in {read_confidence(f) : f \in LookupFiles}
    /\ lookup \in [name : LookupNames, region : LookupRegions]
    /\ InitIdle

Next ==
    \/ CreateNodeDict
    \/ AssignGeography
    \/ CalculateWeights
    \/ CalculateSpreadProbabilities

NextBuild == CreateNodeDict

NextLookup == LookupConfidence

Spec == Init /\ [][Next]_vars

SpecBuild == InitBuild /\ [][NextBuild]_vars

SpecLookup == InitLookup /\ [][NextLookup]_vars

(***************************************************************************)
(* What the specification says of the pipeline, stated over the tree that  *)
(* was read rather than over the node table built from it.                 *)
(***************************************************************************)
RECURSIVE SumOver(_, _)
SumOver(f, S) ==
    IF S = {} THEN 0
    ELSE LET x == CHOOSE y \in S : TRUE IN f[x] + SumOver(f, S \ {x})

Positions == 1..tree.n
Kids(i) == {j \in Positions : tree.par[j] = i}
LeafCount(i) ==
    Cardinality({j \in Positions : i \in AncestorsOrSelf(tree.par, j) /\ Kids(j) = {}})
HasDuplicateNames == \E i, j \in Positions : i # j /\ tree.name[i] = tree.name[j]

\* the region of the node at a position: its annotation, else "Unknown"
RegionAt(i) ==
    IF tree.name[i] \in DOMAIN annotations THEN annotations[tree.name[i]] ELSE "Unknown"
WeightAt(i) == node_dict.data[tree.name[i]].weight
Unannotated == {i \in Positions : tree.name[i] \notin DOMAIN annotations}

\* the lookup of section 4.2: the first column names the node
RegionColumns(df) == {df.columns[i].text : i \in (DOMAIN df.columns) \ {1}}
RowsOf(df, name) ==
    LET Matches(r) == r[1] = name IN SelectSeq(df.rows, Matches)
TableConfidence(df, name, region) ==
    IF region \notin RegionColumns(df) \/ RowsOf(df, name) = <<>> THEN 1
    ELSE RowsOf(df, name)[1][ColumnIndex(df, StrLabel(region))]

WeightsStored == calls.weights > 0 /\ (pc \in {"weighted", "done"} \/ calls.spread > 0)

\* C1: once calculate_weights has completed, a leaf's stored weight is
\* 1 x confidence(n, region(n)) and an internal node's stored weight is
\* confidence(n, region(n)) x the sum of its children's stored weights, the
\* region of an unannotated node being "Unknown".
C1_WeightFormula ==
    WeightsStored =>
        \A i \in Positions :
            WeightAt(i) =
                TableConfidence(confi_df, tree.name[i], RegionAt(i))
                  * (IF Kids(i) = {} THEN 1
                     ELSE SumOver([j \in Positions |-> WeightAt(j)], Kids(i)))

C1_Witness ==
    /\ WeightsStored
    /\ tree.n = MaxNodes
    /\ \E i \in Positions : i # 1 /\ Cardinality(Kids(i)) >= 2
    /\ Len(confi_df.columns) > 1 /\ confi_df.rows # <<>>
    /\ Unannotated # {} /\ Unannotated # Positions

\* C9: when every confidence lookup yields 1, after calculate_weights the
\* weight of every node is the number of leaves of its subtree.
C9_LeafCount ==
    (/\ WeightsStored
     /\ \A i \in Positions :
            get_confidence_by_name_and_region(confi_df, tree.name[i], RegionAt(i))
                = Returned(1, {RegionWarning(RegionAt(i))}))
        => \A i \in Positions : WeightAt(i) = LeafCount(i)

C9_Witness ==
    /\ WeightsStored
    /\ tree.n = MaxNodes
    /\ WeightAt(1) = 2
    /\ \E i \in Positions : i # 1 /\ Kids(i) # {} /\ WeightAt(i) = 2

\* C10: a second run of calculate_weights on the weighted node table leaves
\* every weight as it was, a second run of calculate_spread_probabilities
\* returns the first result again, and the aggregation changes no node.
C10_Idempotent ==
    [][/\ (calls.weights > 0 /\ calls'.weights = calls.weights + 1)
              => (node_dict' = node_dict /\ err' = NoErr)
       /\ (calls.spread > 0 /\ calls'.spread = calls.spread + 1)
              => (spread_probabilities' = spread_probabilities /\ err' = NoErr)
       /\ (calls'.spread # calls.spread) => node_dict' = node_dict]_vars

C10_Witness ==
    /\ calls.weights = 2 /\ calls.spread = 2
    /\ pc = "done"
    /\ tree.n >= 3
    /\ Cardinality(DOMAIN spread_probabilities) >= 2

\* C7: a lookup for a region that is no column of the confidence table
\* returns 1 and raises nothing, whatever rows the table has.
C7_MissingRegionDefault ==
    (/\ pc = "looked up"
     /\ \A i \in DOMAIN confi_df.columns : confi_df.columns[i].text # lookup.region)
        => (err = NoErr /\ conf.raised = NoErr /\ conf.value = 1)

C7_Witness ==
    /\ pc = "looked up"
    /\ lookup.region = "Unknown"
    /\ RegionColumns(confi_df) = {"Region1"}
    /\ RowsOf(confi_df, lookup.name) # <<>>
    /\ conf.value = 1

\* C5: a lookup for a region that is a column of the confidence table
\* returns the value stored in the node's row, or 1 when the node has no
\* row, the node's row being found by the node-name column; it never raises.
C5_RecognizedRegionLookup ==
    (pc = "looked up" /\ lookup.region \in RegionColumns(confi_df))
        => (/\ conf.raised = NoErr
            /\ conf.value = TableConfidence(confi_df, lookup.name, lookup.region))

\* C6: building the node table from a tree in which two positions carry
\* the same name (None included) fails with a structural error; the build
\* never returns a table that merges the two positions.
C6_DuplicateNamesRejected ==
    (pc # "start" /\ HasDuplicateNames)
        => (/\ err = "StructuralError"
            /\ node_dict = EmptyDict)

\* what section 4.5 says the aggregation returns for region r
EdgesInto(r) == {i \in Positions : i # 1 /\ RegionAt(i) = r}
ExpectedStats(r) ==
    LET w == [i \in Positions |-> WeightAt(i)]
        origins == {RegionAt(tree.par[i]) : i \in EdgesInto(r)} \ {r}
    IN  [total   |-> SumOver(w, {i \in Positions : RegionAt(i) = r}),
         local   |-> SumOver(w, {i \in EdgesInto(r) : RegionAt(tree.par[i]) = r}),
         sources |-> [pr \in origins |->
                        SumOver(w, {i \in EdgesInto(r) : RegionAt(tree.par[i]) = pr})]]

SameStats(a, b) ==
    /\ a.total = b.total
    /\ a.local = b.local
    /\ DOMAIN a.sources = DOMAIN b.sources
    /\ \A pr \in DOMAIN a.sources : a.sources[pr] = b.sources[pr]

\* C3: in the returned statistics a non-root node's weight is in its
\* region's local exactly when its parent's region is the same and in
\* sources[parent region] exactly when it differs, whatever the region
\* strings; the root adds to its region's total alone.
C3_EdgeClassification ==
    pc = "done" =>
        \A r \in DOMAIN spread_probabilities :
            SameStats(spread_probabilities[r], ExpectedStats(r))

\* C2: in the returned statistics, total - local - (sum of sources) is the
\* root's weight for the root's region and 0 for every other region.
C2_RegionConservation ==
    pc = "done" =>
        \A r \in DOMAIN spread_probabilities :
            LET st == spread_probabilities[r]
            IN  st.total - st.local - SumOver(st.sources, DOMAIN st.sources)
                    = (IF RegionAt(1) = r THEN WeightAt(1) ELSE 0)

\* C4: with an annotation mapping that leaves nodes out, the three passes
\* complete without an error, every unannotated node's weight is in
\* stats["Unknown"].total once, and a child of an unannotated parent is
\* classified against parent region "Unknown".
C4_UnmappedDefaultUnknown ==
    (calls.spread > 0 /\ Unannotated # {})
        => (/\ pc = "done"
            /\ "Unknown" \in DOMAIN spread_probabilities
            /\ SameStats(spread_probabilities["Unknown"], ExpectedStats("Unknown")))

\* C8: multiplying the stored confidence of one internal node m by f
\* multiplies the weight calculate_weights gives m and every ancestor of m
\* by f and leaves every other node's weight as it was.
Factors == {0, 2, 3}
Scaled(df, name, region, f) ==
    [df EXCEPT !.rows = [k \in DOMAIN df.rows |->
        IF df.rows[k][1] = name
        THEN [df.rows[k] EXCEPT ![ColumnIndex(df, StrLabel(region))] = @ * f]
        ELSE df.rows[k]]]

C8_ConfidenceScaling ==
    pc = "annotated" =>
        \A m \in Positions, f \in Factors :
            (/\ Kids(m) # {}
             /\ RegionAt(m) \in RegionColumns(confi_df)
             /\ RowsOf(confi_df, tree.name[m]) # <<>>)
            => LET base == calculate_weights(node_dict, confi_df)
                   scaled == calculate_weights(node_dict,
                                 Scaled(confi_df, tree.name[m], RegionAt(m), f))
               IN  /\ base.raised = NoErr
                   /\ scaled.raised = NoErr
                   /\ \A i \in Positions :
                        scaled.node_dict.data[tree.name[i]].weight =
                            (IF i \in AncestorsOrSelf(tree.par, m) THEN f ELSE 1)
                              * base.node_dict.data[tree.name[i]].weight

====
